---- MODULE Spec2Model ----
(***************************************************************************)
(* Wallet lifecycle and environment resolution of the staging monorepo:    *)
(* packages/types/src/config.ts (schemas, collectEnvironment,              *)
(* loadEnvironment), packages/wallet/src/env.ts (loadEnv),                 *)
(* packages/wallet/src/wallet.ts (ensureWallet and its helpers) and the    *)
(* wallet commands of packages/cli/src/index.ts.                           *)
(*                                                                         *)
(* Strings are sequences of atoms.  An atom [c, n] stands for a run of     *)
(* characters of class c:                                                  *)
(*   "K"   0x followed by 64 hex digits (key number n; key 0 is the        *)
(*         all-zero key, which matches the pattern but is no valid         *)
(*         secp256k1 scalar)                                               *)
(*   "A"   0x followed by 40 hex digits (the address of key n)             *)
(*   "url" an absolute URL (n = 1: https://..., n = 2: ftp://...)          *)
(*   "txt" any other run of ordinary characters                            *)
(*   "sp"  a blank                                                         *)
(*   "q"   a double quote                                                  *)
(***************************************************************************)
EXTENDS Integers, Sequences, FiniteSets, TLC

Atom(c, n) == [c |-> c, n |-> n]
Str(c, n) == <<Atom(c, n)>>
SP == Atom("sp", 0)
QT == Atom("q", 0)
EmptyStr == <<>>
KeyStr(n) == Str("K", n)
AddrStr(n) == Str("A", n)
Quoted(s) == <<QT>> \o s \o <<QT>>
Padded(s) == <<SP>> \o s \o <<SP>>

EmptyMap == [k \in {} |-> EmptyStr]

Has(m, k) == k \in DOMAIN m

(* JavaScript truthiness of m[k]: defined and not the empty string. *)
Truthy(m, k) == Has(m, k) /\ m[k] # EmptyStr

(* Object spread {...a, ...b}. *)
Spread(a, b) ==
    [k \in (DOMAIN a) \cup (DOMAIN b) |-> IF k \in DOMAIN b THEN b[k] ELSE a[k]]

(* String.prototype.trim / the trim() of dotenv and zod. *)
RECURSIVE TrimLeft(_)
TrimLeft(s) ==
    IF s # <<>> /\ Head(s) = SP THEN TrimLeft(Tail(s)) ELSE s

RECURSIVE TrimRight(_)
TrimRight(s) ==
    IF s # <<>> /\ s[Len(s)] = SP THEN TrimRight(SubSeq(s, 1, Len(s) - 1)) ELSE s

Trim(s) == TrimRight(TrimLeft(s))

(***************************************************************************)
(* Files in the KEY=value format.  A file's text is the sequence of its    *)
(* lines; a line is an assignment k=raw, a comment or a blank line.        *)
(***************************************************************************)
KVLine(k, raw) == [t |-> "kv", k |-> k, raw |-> raw]
CommentLine(n) == [t |-> "comment", k |-> "", raw |-> Str("txt", n)]
BlankLine == [t |-> "blank", k |-> "", raw |-> EmptyStr]

NoFile == [exists |-> FALSE, lines |-> <<>>]
FileOf(lines) == [exists |-> TRUE, lines |-> lines]

(* dotenv: the value of one assignment, trimmed, then unquoted. *)
DotenvValue(raw) ==
    LET v == Trim(raw)
    IN IF Len(v) >= 2 /\ v[1] = QT /\ v[Len(v)] = QT
       THEN SubSeq(v, 2, Len(v) - 1)
       ELSE v

(* dotenv parse(): every assignment line, a later one replacing an earlier. *)
RECURSIVE parseEnvFile(_)
parseEnvFile(lines) ==
    IF lines = <<>> THEN EmptyMap
    ELSE LET n == Len(lines)
             rest == parseEnvFile(SubSeq(lines, 1, n - 1))
             l == lines[n]
         IN IF l.t = "kv"
            THEN Spread(rest, [k \in {l.k} |-> DotenvValue(l.raw)])
            ELSE rest

(***************************************************************************)
(* packages/types/src/config.ts                                            *)
(***************************************************************************)
CanonicalKeys == {"SEPOLIA_RPC_URL", "PRIVATE_KEY", "WALLET_ADDRESS", "ETHERSCAN_API_KEY"}

IsUrl(s) == Len(s) = 1 /\ s[1].c = "url"
IsHttpUrl(s) == IsUrl(s) /\ s[1].n = 1
IsPrivateKey(s) == Len(s) = 1 /\ s[1].c = "K"
IsAddress(s) == Len(s) = 1 /\ s[1].c = "A"

(* The check of one field of BaseEnvironmentSchema on its trimmed value. *)
FieldOk(k, v) ==
    CASE k = "SEPOLIA_RPC_URL" -> IsHttpUrl(v)
      [] k = "PRIVATE_KEY" -> IsPrivateKey(v)
      [] k = "WALLET_ADDRESS" -> IsAddress(v)
      [] k = "ETHERSCAN_API_KEY" -> Len(v) >= 1
      [] OTHER -> TRUE

(* BaseEnvironmentSchema.parse: issues names the offending fields; value is
   the parsed output (validated fields trimmed, unknown keys passed through). *)
BaseEnvironmentSchema(m) ==
    LET out == [k \in DOMAIN m |-> IF k \in CanonicalKeys THEN Trim(m[k]) ELSE m[k]]
        issues == {k \in DOMAIN m : ~FieldOk(k, out[k])}
    IN [ok |-> issues = {}, issues |-> issues, missing |-> {}, custom |-> <<>>,
        value |-> out]

(* Lines 58-63. *)
requiredKeys == <<"SEPOLIA_RPC_URL", "PRIVATE_KEY", "WALLET_ADDRESS", "ETHERSCAN_API_KEY">>

superRefineStopsAtFirst(environment) ==
    LET falsy == {i \in 1..Len(requiredKeys) : ~Truthy(environment, requiredKeys[i])}
    IN IF falsy = {} THEN <<>>
       ELSE <<requiredKeys[CHOOSE i \in falsy : \A j \in falsy : i <= j]>>

(* Lines 65-73: the loop of superRefine; the paths of the issues it adds, in
   the order it adds them. *)
superRefine(environment) ==
    LET Falsy(k) == ~Truthy(environment, k)
    IN SelectSeq(requiredKeys, Falsy)

StrictEnvironmentSchemaRequiredOnly(m) ==
    LET base == BaseEnvironmentSchema(m)
        custom == superRefine(m)
        missing == {custom[i] : i \in 1..Len(custom)}
    IN [ok |-> missing = {}, issues |-> {},
        missing |-> missing, custom |-> custom, value |-> m]

(* StrictEnvironmentSchema: the base schema, then superRefine adds one issue
   per required key that is missing or empty in the parsed value. *)
StrictEnvironmentSchema(m) ==
    LET base == BaseEnvironmentSchema(m)
        custom == superRefine(base.value)
        missing == {custom[i] : i \in 1..Len(custom)}
    IN [ok |-> base.ok /\ missing = {}, issues |-> base.issues,
        missing |-> missing, custom |-> custom, value |-> base.value]

(* The first loop of collectEnvironment: non-empty process variables. *)
FromProcess(penv) == [k \in {x \in DOMAIN penv : penv[x] # EmptyStr} |-> penv[k]]

(* One pass of the second loop: keys of the file not yet in merged. *)
MergeFile(merged, file) ==
    IF ~file.exists THEN merged
    ELSE Spread(parseEnvFile(file.lines), merged)

collectEnvironmentSharedFirst(penv, localFile, sharedFile) ==
    MergeFile(MergeFile(FromProcess(penv), sharedFile), localFile)

collectEnvironment(penv, localFile, sharedFile) ==
    MergeFile(MergeFile(FromProcess(penv), localFile), sharedFile)

loadEnvironment(penv, localFile, sharedFile) ==
    BaseEnvironmentSchema(collectEnvironment(penv, localFile, sharedFile))

loadStrictEnvironment(penv, localFile, sharedFile) ==
    StrictEnvironmentSchema(collectEnvironment(penv, localFile, sharedFile))

(* packages/wallet/src/env.ts *)
loadEnv(penv, localFile, sharedFile) == loadEnvironment(penv, localFile, sharedFile)

(***************************************************************************)
(* packages/wallet/src/wallet.ts                                           *)
(***************************************************************************)
Mode600 == 384

RECURSIVE BitAnd(_, _)
BitAnd(a, b) ==
    IF a = 0 \/ b = 0 THEN 0
    ELSE 2 * BitAnd(a \div 2, b \div 2) + (IF a % 2 = 1 /\ b % 2 = 1 THEN 1 ELSE 0)

(* Permission bits for group and others. *)
GroupOtherBits(mode) == BitAnd(mode, 63)

(* viem generatePrivateKey: the n-th key drawn is a key never seen before. *)
generatePrivateKey(n) == KeyStr(3 + n)

(* viem privateKeyToAccount: throws unless the argument is a 32-byte hex
   string that is a valid scalar; the address is a function of the key. *)
privateKeyToAccount(pk) ==
    IF IsPrivateKey(pk) /\ pk[1].n # 0
    THEN [ok |-> TRUE, address |-> AddrStr(pk[1].n)]
    ELSE [ok |-> FALSE, address |-> EmptyStr]

readEnvLocal(file) ==
    IF ~file.exists THEN EmptyMap ELSE parseEnvFile(file.lines)

(* Object.keys(values).sort() for the key names in use. *)
KeyOrder ==
    <<"ETHERSCAN_API_KEY", "FOO", "PRIVATE_KEY", "SEPOLIA_RPC_URL", "WALLET_ADDRESS">>

SortedKeys(values) ==
    LET InValues(k) == k \in DOMAIN values
    IN SelectSeq(KeyOrder, InValues)

RECURSIVE EntryLines(_, _)
EntryLines(values, keys) ==
    IF keys = <<>> THEN <<>>
    ELSE LET k == Head(keys)
         IN (IF Len(values[k]) > 0 THEN <<KVLine(k, values[k])>> ELSE <<>>)
            \o EntryLines(values, Tail(keys))

serializeEnvMap(values) ==
    LET header == <<CommentLine(1), CommentLine(2), BlankLine>>
        body == header \o EntryLines(values, SortedKeys(values))
        hasAddr == \E i \in 1..Len(body) : body[i].t = "kv" /\ body[i].k = "WALLET_ADDRESS"
        withAddr == IF Has(values, "WALLET_ADDRESS") /\ ~hasAddr
                    THEN Append(body, KVLine("WALLET_ADDRESS", values["WALLET_ADDRESS"]))
                    ELSE body
    IN IF withAddr[Len(withAddr)] # BlankLine THEN Append(withAddr, BlankLine) ELSE withAddr

Secrets(pk, addr) ==
    [k \in {"PRIVATE_KEY", "WALLET_ADDRESS"} |-> IF k = "PRIVATE_KEY" THEN pk ELSE addr]

Material(path, addr, pk, created, rotated, wroteEnv) ==
    [kind |-> "ok", path |-> path, address |-> addr, privateKey |-> pk,
     created |-> created, rotated |-> rotated, wroteEnv |-> wroteEnv]

Thrown(path) ==
    [kind |-> "thrown", path |-> path, address |-> EmptyStr, privateKey |-> EmptyStr,
     created |-> FALSE, rotated |-> FALSE, wroteEnv |-> FALSE]

NoResult ==
    [kind |-> "none", path |-> "", address |-> EmptyStr, privateKey |-> EmptyStr,
     created |-> FALSE, rotated |-> FALSE, wroteEnv |-> FALSE]

(* A plan is what ensureWallet has decided once readEnvLocal returned: return
   at once, throw, or write `values` and then return `material`. *)
Plan(do, values, material) == [do |-> do, values |-> values, material |-> material]

rotateWalletKeepsKey(envLocal, privateKey) ==
    LET kept == IF Truthy(envLocal, "PRIVATE_KEY") THEN envLocal["PRIVATE_KEY"] ELSE privateKey
        account == privateKeyToAccount(kept)
    IN Plan("write", Spread(envLocal, Secrets(kept, account.address)),
            Material("rotate", account.address, kept, TRUE, TRUE, TRUE))

rotateWallet(envLocal, privateKey) ==
    LET account == privateKeyToAccount(privateKey)
    IN Plan("write", Spread(envLocal, Secrets(privateKey, account.address)),
            Material("rotate", account.address, privateKey, TRUE, TRUE, TRUE))

provisionWalletKeyOnly(envLocal, privateKey) ==
    LET account == privateKeyToAccount(privateKey)
    IN Plan("write", Spread(envLocal, [k \in {"PRIVATE_KEY"} |-> privateKey]),
            Material("provision", account.address, privateKey, TRUE, FALSE, TRUE))

provisionWallet(envLocal, privateKey) ==
    LET account == privateKeyToAccount(privateKey)
    IN Plan("write", Spread(envLocal, Secrets(privateKey, account.address)),
            Material("provision", account.address, privateKey, TRUE, FALSE, TRUE))

repairWalletFlagsCreated(envLocal, existingPrivateKey) ==
    LET derivedAccount == privateKeyToAccount(existingPrivateKey)
    IN IF ~derivedAccount.ok THEN Plan("throw", EmptyMap, Thrown("derive"))
       ELSE Plan("write", Spread(envLocal, Secrets(existingPrivateKey, derivedAccount.address)),
                 Material("repair", derivedAccount.address, existingPrivateKey,
                          TRUE, FALSE, TRUE))

repairWalletWritesBeforeDerive(envLocal, existingPrivateKey) ==
    LET derivedAccount == privateKeyToAccount(existingPrivateKey)
    IN IF ~derivedAccount.ok
       THEN Plan("write", Spread(envLocal, Secrets(existingPrivateKey, EmptyStr)),
                 Thrown("derive"))
       ELSE Plan("write", Spread(envLocal, Secrets(existingPrivateKey, derivedAccount.address)),
                 Material("repair", derivedAccount.address, existingPrivateKey,
                          FALSE, FALSE, TRUE))

repairWallet(envLocal, existingPrivateKey) ==
    LET derivedAccount == privateKeyToAccount(existingPrivateKey)
    IN IF ~derivedAccount.ok THEN Plan("throw", EmptyMap, Thrown("derive"))
       ELSE Plan("write", Spread(envLocal, Secrets(existingPrivateKey, derivedAccount.address)),
                 Material("repair", derivedAccount.address, existingPrivateKey,
                          FALSE, FALSE, TRUE))

reuseWalletRewrites(environment) ==
    Plan("write", Secrets(environment["PRIVATE_KEY"], environment["WALLET_ADDRESS"]),
         Material("reuse", environment["WALLET_ADDRESS"], environment["PRIVATE_KEY"],
                  FALSE, FALSE, TRUE))

reuseWallet(environment) ==
    Plan("return", EmptyMap,
         Material("reuse", environment["WALLET_ADDRESS"], environment["PRIVATE_KEY"],
                  FALSE, FALSE, FALSE))

ensureWalletPlanRepairsAgain(environment, envLocal, force, freshKey) ==
    IF force THEN rotateWallet(envLocal, freshKey)
    ELSE IF Truthy(environment, "PRIVATE_KEY")
         THEN repairWallet(envLocal, environment["PRIVATE_KEY"])
    ELSE provisionWallet(envLocal, freshKey)

(* The body of ensureWallet after its two reads. *)
ensureWalletPlan(environment, envLocal, force, freshKey) ==
    IF force THEN rotateWallet(envLocal, freshKey)
    ELSE IF Truthy(environment, "PRIVATE_KEY") /\ Truthy(environment, "WALLET_ADDRESS")
         THEN reuseWallet(environment)
    ELSE IF Truthy(environment, "PRIVATE_KEY")
         THEN repairWallet(envLocal, environment["PRIVATE_KEY"])
    ELSE provisionWallet(envLocal, freshKey)

(* writeFileSync(path, data, {mode}): open with O_CREAT|O_TRUNC.  The mode is
   used only when the file is created, and the process umask is cleared. *)
OpenTruncate(file) == FileOf(<<>>)

OpenMode(file, mode, requested, mask) ==
    IF file.exists THEN mode ELSE BitAnd(requested, 511 - mask)

(* A write that would replace the whole file. *)
WriteFromStartWholeFile(old, data) == data

(* writeFileSync after the open: the data replaces the file from position 0;
   lines of the file beyond the data are left as they are. *)
WriteFromStart(old, data) ==
    data \o SubSeq(old, Len(data) + 1, Len(old))

chmodSyncSkipped(mode, newMode) == mode

chmodSync(mode, newMode) == newMode

(***************************************************************************)
(* State.  The working directory holds .env.local (localFile, with its     *)
(* permission bits localMode) and .env (sharedFile); procEnv is            *)
(* process.env.  Each invocation p of ensureWallet is at position pc[p].   *)
(* hist and calls are bookkeeping for stating the properties.              *)
(* cli[p] is the wallet command process p runs, keystore the file          *)
(* wallet.keystore.json; fnArg and fnOut are the argument and the result   *)
(* of a function applied on its own.                                       *)
(***************************************************************************)
VARIABLES procEnv, localFile, localMode, sharedFile, umask,
          pc, environment, pending, result, hist, calls,
          cli, keystore, fnArg, fnOut

vars == <<procEnv, localFile, localMode, sharedFile, umask,
          pc, environment, pending, result, hist, calls,
          cli, keystore, fnArg, fnOut>>

cliVars == <<cli, keystore>>
fnVars == <<fnArg, fnOut>>

Procs == {1, 2}

MaxCalls == 2

(* options.environment: not given, or one of the pre-loaded environments a
   caller may pass. *)
PreloadedEnvs == {EmptyMap}

EnvironmentOptions ==
    {[given |-> FALSE, value |-> EmptyMap]} \cup
    {[given |-> TRUE, value |-> e] : e \in PreloadedEnvs}

NoPlan == Plan("none", EmptyMap, NoResult)

(* No command has been run by the process. *)
NoCommand ==
    [cmd |-> "none", force |-> FALSE, keystore |-> FALSE, outcome |-> "none",
     resolved |-> FALSE, environment |-> EmptyMap, callNo |-> 0,
     callForce |-> FALSE, entry |-> NoFile, entryMode |-> 0, entryKeystore |-> NoFile]

(* No function has been applied. *)
NoOut == [op |-> "none"]

NoHist ==
    [force |-> FALSE, pre |-> FALSE, entry |-> NoFile, entryMode |-> 0,
     prev |-> NoResult, prevForce |-> FALSE, prevPre |-> FALSE,
     wrote |-> FALSE, callNo |-> 0, first |-> NoFile]

(* A map from the listed <<key, value>> pairs; a pair with value "absent"
   leaves the key out. *)
Absent == Str("absent", 0)

MapOf(pairs) ==
    LET idx == {i \in 1..Len(pairs) : pairs[i][2] # Absent}
    IN [k \in {pairs[i][1] : i \in idx} |->
          pairs[CHOOSE i \in idx : pairs[i][1] = k][2]]

RECURSIVE LinesOf(_)
LinesOf(pairs) ==
    IF pairs = <<>> THEN <<>>
    ELSE (IF Head(pairs)[2] # Absent
          THEN <<KVLine(Head(pairs)[1], Head(pairs)[2])>> ELSE <<>>)
         \o LinesOf(Tail(pairs))

(* Starting contents of the three sources. *)
ProcEnvs ==
    {MapOf(<<<<"PRIVATE_KEY", pk>>, <<"WALLET_ADDRESS", wa>>>>) :
        pk \in {Absent, EmptyStr, KeyStr(2), Padded(KeyStr(2))},
        wa \in {Absent, AddrStr(2)}}

LocalFiles ==
    {NoFile} \cup
    {FileOf(<<CommentLine(3)>> \o
            LinesOf(<<<<"PRIVATE_KEY", pk>>, <<"WALLET_ADDRESS", wa>>, <<"FOO", foo>>>>)) :
        pk \in {Absent, KeyStr(1), KeyStr(0), EmptyStr},
        wa \in {Absent, AddrStr(1), Str("txt", 1)},
        foo \in {Absent, Quoted(Padded(Str("txt", 2))), EmptyStr}}

SharedFiles ==
    {NoFile} \cup
    {FileOf(LinesOf(<<<<"PRIVATE_KEY", pk>>, <<"WALLET_ADDRESS", wa>>, <<"FOO", foo>>>>)) :
        pk \in {Absent, KeyStr(3)},
        wa \in {Absent, AddrStr(3)},
        foo \in {Absent, Str("txt", 3)}}

Mode644 == 6 * 64 + 4 * 8 + 4
Umask022 == 2 * 8 + 2

InitProcs ==
    /\ pc = [p \in Procs |-> "idle"]
    /\ environment = [p \in Procs |-> EmptyMap]
    /\ pending = [p \in Procs |-> NoPlan]
    /\ result = [p \in Procs |-> NoResult]
    /\ hist = [p \in Procs |-> NoHist]
    /\ calls = 0
    /\ cli = [p \in Procs |-> NoCommand]
    /\ keystore = NoFile

InitNoFn ==
    /\ fnArg = EmptyMap
    /\ fnOut = NoOut

Init ==
    /\ procEnv \in ProcEnvs
    /\ localFile \in LocalFiles
    /\ localMode \in (IF localFile.exists THEN {Mode600, Mode644} ELSE {0})
    /\ sharedFile \in SharedFiles
    /\ umask \in (IF localFile.exists THEN {Umask022} ELSE {Umask022, 0})
    /\ InitProcs
    /\ InitNoFn

(***************************************************************************)
(* ensureWallet, one action per access to the file system.                 *)
(***************************************************************************)

(* Lines 64-66: the call starts and takes options.environment, or resolves
   the environment with loadEnv, which throws when validation fails. *)
Load(p, force, pre) ==
    /\ pc[p] = "idle"
    /\ calls < MaxCalls
    /\ calls' = calls + 1
    /\ hist' = [hist EXCEPT ![p] =
                  [force |-> force, pre |-> pre.given, entry |-> localFile,
                   entryMode |-> localMode, prev |-> result[p],
                   prevForce |-> hist[p].force, prevPre |-> hist[p].pre,
                   wrote |-> FALSE, callNo |-> calls + 1,
                   first |-> IF hist[p].callNo = 0 THEN localFile ELSE hist[p].first]]
    /\ LET loaded == IF pre.given
                     THEN [ok |-> TRUE, issues |-> {}, missing |-> {}, value |-> pre.value]
                     ELSE loadEnv(procEnv, localFile, sharedFile)
       IN IF loaded.ok
          THEN /\ environment' = [environment EXCEPT ![p] = loaded.value]
               /\ pc' = [pc EXCEPT ![p] = "read"]
               /\ result' = [result EXCEPT ![p] = NoResult]
          ELSE /\ environment' = [environment EXCEPT ![p] = EmptyMap]
               /\ pc' = pc
               /\ result' = [result EXCEPT ![p] = Thrown("schema")]
    /\ UNCHANGED <<procEnv, localFile, localMode, sharedFile, umask, pending, cliVars, fnVars>>

(* Lines 67-105 up to the call of writeFileSync: readEnvLocal, the decision,
   and serializeEnvMap for the paths that write. *)
ReadAndDecide(p) ==
    /\ pc[p] = "read"
    /\ LET plan == ensureWalletPlan(environment[p], readEnvLocal(localFile),
                                    hist[p].force, generatePrivateKey(hist[p].callNo))
       IN IF plan.do = "write"
          THEN /\ pending' = [pending EXCEPT ![p] = plan]
               /\ pc' = [pc EXCEPT ![p] = "open"]
               /\ result' = result
          ELSE /\ pending' = pending
               /\ pc' = [pc EXCEPT ![p] = "idle"]
               /\ result' = [result EXCEPT ![p] = plan.material]
    /\ UNCHANGED <<procEnv, localFile, localMode, sharedFile, umask, environment, hist, calls,
                   cliVars, fnVars>>

(* Line 174, first half: writeFileSync opens the file, creating it with the
   requested mode or truncating it. *)
WriteOpen(p) ==
    /\ pc[p] = "open"
    /\ localMode' = OpenMode(localFile, localMode, Mode600, umask)
    /\ localFile' = OpenTruncate(localFile)
    /\ pc' = [pc EXCEPT ![p] = "data"]
    /\ hist' = [hist EXCEPT ![p].wrote = TRUE]
    /\ UNCHANGED <<procEnv, sharedFile, umask, environment, pending, result, calls,
                   cliVars, fnVars>>

(* Line 174, second half: the serialized text is written from position 0 of
   the file opened by WriteOpen.  The file is not truncated again: what
   another writer has put beyond the end of this text in the meantime stays
   (a line is the unit of length). *)
WriteData(p) ==
    /\ pc[p] = "data"
    /\ localFile' = FileOf(WriteFromStart(localFile.lines, serializeEnvMap(pending[p].values)))
    /\ pc' = [pc EXCEPT ![p] = "chmod"]
    /\ UNCHANGED <<procEnv, localMode, sharedFile, umask, environment, pending, result,
                   hist, calls, cliVars, fnVars>>

(* Lines 175-176 and the return of ensureWallet. *)
ChmodAndReturn(p) ==
    /\ pc[p] = "chmod"
    /\ localMode' = chmodSync(localMode, Mode600)
    /\ result' = [result EXCEPT ![p] = pending[p].material]
    /\ pending' = [pending EXCEPT ![p] = NoPlan]
    /\ pc' = [pc EXCEPT ![p] = "idle"]
    /\ UNCHANGED <<procEnv, localFile, sharedFile, umask, environment, hist, calls,
                   cliVars, fnVars>>

Step(p) ==
    \/ \E force \in BOOLEAN, pre \in EnvironmentOptions : Load(p, force, pre)
    \/ ReadAndDecide(p)
    \/ WriteOpen(p)
    \/ WriteData(p)
    \/ ChmodAndReturn(p)

(* One invocation at a time (section 5: single-threaded, synchronous). *)
Next == Step(1)

Spec == Init /\ [][Next]_vars

(* Two invocations racing on the same working directory, their file system
   accesses interleaved in any order (no lock is taken on .env.local). *)
RaceLocalFiles ==
    {NoFile} \cup
    {FileOf(LinesOf(<<<<"PRIVATE_KEY", KeyStr(1)>>, <<"WALLET_ADDRESS", wa>>>>)) :
        wa \in {Absent, AddrStr(1)}} \cup
    {FileOf(LinesOf(<<<<"FOO", Str("txt", 2)>>, <<"SEPOLIA_RPC_URL", Str("url", 1)>>>>))}

InitRace ==
    /\ procEnv \in {EmptyMap, MapOf(<<<<"PRIVATE_KEY", KeyStr(2)>>>>)}
    /\ localFile \in RaceLocalFiles
    /\ localMode \in (IF localFile.exists THEN {Mode600, Mode644} ELSE {0})
    /\ sharedFile = NoFile
    /\ umask \in {Umask022, 0}
    /\ InitProcs
    /\ InitNoFn

NextRace == \E p \in Procs : Step(p)

SpecRace == InitRace /\ [][NextRace]_vars

(***************************************************************************)
(* The wallet commands of the CLI (packages/cli/src/index.ts).  A command  *)
(* resolves the environment itself and hands it to ensureWallet, whose     *)
(* steps are the actions above.                                            *)
(***************************************************************************)

(* The last command of p has finished: it made no call of ensureWallet, or
   the call it made has returned or thrown. *)
CommandDone(p) ==
    /\ pc[p] = "idle"
    /\ (cli[p].outcome = "call" => hist[p].callNo = cli[p].callNo)

(* The command record when a command starts; callNo is the number the call
   of ensureWallet will carry if the command makes one. *)
Started(cmd, force, ks, outcome, resolved, loaded, callForce) ==
    [cmd |-> cmd, force |-> force, keystore |-> ks, outcome |-> outcome,
     resolved |-> resolved,
     environment |-> IF resolved /\ loaded.ok THEN loaded.value ELSE EmptyMap,
     callNo |-> calls + 1, callForce |-> callForce,
     entry |-> localFile, entryMode |-> localMode, entryKeystore |-> keystore]

NotLoaded == [ok |-> FALSE, issues |-> {}, missing |-> {}, value |-> EmptyMap]

(* wallet init, lines 57-62. *)
CliInit(p) ==
    /\ CommandDone(p)
    /\ calls < MaxCalls
    /\ LET loaded == loadEnv(procEnv, localFile, sharedFile)
       IN cli' = [cli EXCEPT ![p] =
                    Started("init", FALSE, FALSE,
                            IF loaded.ok THEN "call" ELSE "schema", TRUE, loaded, FALSE)]
    /\ UNCHANGED <<procEnv, localFile, localMode, sharedFile, umask, pc, environment,
                   pending, result, hist, calls, keystore, fnVars>>

CliStatusAlwaysEnsures(p) ==
    /\ CommandDone(p)
    /\ calls < MaxCalls
    /\ LET loaded == loadEnv(procEnv, localFile, sharedFile)
       IN cli' = [cli EXCEPT ![p] =
                    Started("status", FALSE, FALSE,
                            IF loaded.ok THEN "call" ELSE "schema", TRUE, loaded, FALSE)]
    /\ UNCHANGED <<procEnv, localFile, localMode, sharedFile, umask, pc, environment,
                   pending, result, hist, calls, keystore, fnVars>>

(* wallet status, lines 68-94: without a private key it prints a hint, with
   both secrets it reports them itself, otherwise it calls ensureWallet. *)
CliStatus(p) ==
    /\ CommandDone(p)
    /\ calls < MaxCalls
    /\ LET loaded == loadEnv(procEnv, localFile, sharedFile)
           outcome == IF ~loaded.ok THEN "schema"
                      ELSE IF ~Truthy(loaded.value, "PRIVATE_KEY") THEN "noKey"
                      ELSE IF Truthy(loaded.value, "WALLET_ADDRESS") THEN "status"
                      ELSE "call"
       IN cli' = [cli EXCEPT ![p] =
                    Started("status", FALSE, FALSE, outcome, TRUE, loaded, FALSE)]
    /\ UNCHANGED <<procEnv, localFile, localMode, sharedFile, umask, pc, environment,
                   pending, result, hist, calls, keystore, fnVars>>

(* Lines 102-106: rotate throws unless --force was given. *)
rotateRefusesNever(force) == FALSE

rotateRefuses(force) == ~force

(* wallet rotate, lines 101-112. *)
CliRotate(p, force) ==
    /\ CommandDone(p)
    /\ calls < MaxCalls
    /\ IF rotateRefuses(force)
       THEN cli' = [cli EXCEPT ![p] =
                      Started("rotate", force, FALSE, "refused", FALSE, NotLoaded, FALSE)]
       ELSE LET loaded == loadEnv(procEnv, localFile, sharedFile)
            IN cli' = [cli EXCEPT ![p] =
                         Started("rotate", force, FALSE,
                                 IF loaded.ok THEN "call" ELSE "schema", TRUE, loaded, TRUE)]
    /\ UNCHANGED <<procEnv, localFile, localMode, sharedFile, umask, pc, environment,
                   pending, result, hist, calls, keystore, fnVars>>

(* Lines 126-128: export throws when either secret is missing. *)
exportRefusesBothMissing(env) ==
    ~Truthy(env, "PRIVATE_KEY") /\ ~Truthy(env, "WALLET_ADDRESS")

exportRefuses(env) ==
    ~Truthy(env, "PRIVATE_KEY") \/ ~Truthy(env, "WALLET_ADDRESS")

(* Lines 189-201: the payload of the demo keystore (the note and the time
   stamp are left out). *)
Field(env, k) == IF Has(env, k) THEN env[k] ELSE EmptyStr

writeDemoKeystore(address, privateKey) ==
    FileOf(<<KVLine("address", address), KVLine("privateKey", privateKey)>>)

(* wallet export, lines 120-145, written to the default path keystore.json. *)
CliExport(p, ks) ==
    /\ CommandDone(p)
    /\ LET loaded == loadEnv(procEnv, localFile, sharedFile)
           outcome == IF ~loaded.ok THEN "schema"
                      ELSE IF exportRefuses(loaded.value) THEN "missingSecrets"
                      ELSE IF ks THEN "exported"
                      ELSE "noFormat"
       IN /\ cli' = [cli EXCEPT ![p] =
                       Started("export", FALSE, ks, outcome, TRUE, loaded, FALSE)]
          /\ keystore' = IF outcome = "exported"
                         THEN writeDemoKeystore(Field(loaded.value, "WALLET_ADDRESS"),
                                                Field(loaded.value, "PRIVATE_KEY"))
                         ELSE keystore
    /\ UNCHANGED <<procEnv, localFile, localMode, sharedFile, umask, pc, environment,
                   pending, result, hist, calls, fnVars>>

(* Lines 60, 91 and 110: the command calls ensureWallet with the environment
   it resolved. *)
CliEnsure(p) ==
    /\ cli[p].outcome = "call"
    /\ hist[p].callNo # cli[p].callNo
    /\ Load(p, cli[p].callForce, [given |-> TRUE, value |-> cli[p].environment])

CliStep(p) ==
    \/ CliInit(p)
    \/ CliStatus(p)
    \/ \E force \in BOOLEAN : CliRotate(p, force)
    \/ \E ks \in BOOLEAN : CliExport(p, ks)
    \/ CliEnsure(p)
    \/ ReadAndDecide(p)
    \/ WriteOpen(p)
    \/ WriteData(p)
    \/ ChmodAndReturn(p)

(* One command at a time. *)
NextCli == CliStep(1)

(* Starting contents of the sources for the commands. *)
CliProcEnvs ==
    {MapOf(<<<<"PRIVATE_KEY", pk>>, <<"WALLET_ADDRESS", wa>>>>) :
        pk \in {Absent, KeyStr(2)}, wa \in {Absent, AddrStr(2)}}

CliLocalFiles ==
    {NoFile} \cup
    {FileOf(LinesOf(<<<<"PRIVATE_KEY", pk>>, <<"WALLET_ADDRESS", wa>>>>)) :
        pk \in {Absent, KeyStr(1), KeyStr(0)},
        wa \in {Absent, AddrStr(1), Str("txt", 1)}}

InitCli ==
    /\ procEnv \in CliProcEnvs
    /\ localFile \in CliLocalFiles
    /\ localMode \in (IF localFile.exists THEN {Mode600, Mode644} ELSE {0})
    /\ sharedFile \in {NoFile, FileOf(LinesOf(<<<<"PRIVATE_KEY", KeyStr(3)>>>>))}
    /\ umask = Umask022
    /\ InitProcs
    /\ InitNoFn

SpecCli == InitCli /\ [][NextCli]_vars

(***************************************************************************)
(* serializeEnvMap applied on its own to a mapping.                        *)
(***************************************************************************)
SerializeInputs ==
    {MapOf(<<<<"ETHERSCAN_API_KEY", api>>, <<"FOO", foo>>, <<"PRIVATE_KEY", pk>>,
             <<"SEPOLIA_RPC_URL", rpc>>, <<"WALLET_ADDRESS", wa>>>>) :
        api \in {Absent, EmptyStr, Str("txt", 4)},
        foo \in {Absent, EmptyStr, Str("txt", 2)},
        pk \in {Absent, EmptyStr, KeyStr(1)},
        rpc \in {Absent, Str("url", 1)},
        wa \in {Absent, EmptyStr, AddrStr(1)}}

InitQuiet ==
    /\ procEnv = EmptyMap
    /\ localFile = NoFile
    /\ localMode = 0
    /\ sharedFile = NoFile
    /\ umask = Umask022
    /\ InitProcs

InitSerialize ==
    /\ InitQuiet
    /\ fnArg \in SerializeInputs
    /\ fnOut = NoOut

(* Line 173: writeEnvLocal serializes the mapping it is given. *)
Serialize ==
    /\ fnOut.op = "none"
    /\ fnOut' = [op |-> "serialize", lines |-> serializeEnvMap(fnArg)]
    /\ UNCHANGED <<procEnv, localFile, localMode, sharedFile, umask, pc, environment,
                   pending, result, hist, calls, cliVars, fnArg>>

NextSerialize == Serialize

SpecSerialize == InitSerialize /\ [][NextSerialize]_vars

(***************************************************************************)
(* The two schemas applied on their own to a mapping.                      *)
(***************************************************************************)
SchemaInputs ==
    {MapOf(<<<<"SEPOLIA_RPC_URL", rpc>>, <<"PRIVATE_KEY", pk>>, <<"WALLET_ADDRESS", wa>>,
             <<"ETHERSCAN_API_KEY", api>>, <<"FOO", foo>>>>) :
        rpc \in {Absent, EmptyStr, Str("url", 1), Str("url", 2), Str("txt", 5)},
        pk \in {Absent, EmptyStr, KeyStr(1), Padded(KeyStr(1)), Str("txt", 6), <<SP>>},
        wa \in {Absent, EmptyStr, AddrStr(1), Str("txt", 1)},
        api \in {Absent, EmptyStr, Str("txt", 4), <<SP>>},
        foo \in {Absent, EmptyStr}}

(* A schema that has not been applied, and the result of one that has. *)
NotRun ==
    [ran |-> FALSE, ok |-> FALSE, issues |-> {}, missing |-> {}, custom |-> <<>>,
     value |-> EmptyMap]

Ran(res) ==
    [ran |-> TRUE, ok |-> res.ok, issues |-> res.issues, missing |-> res.missing,
     custom |-> res.custom, value |-> res.value]

InitSchema ==
    /\ InitQuiet
    /\ fnArg \in SchemaInputs
    /\ fnOut = [op |-> "schema", base |-> NotRun, strict |-> NotRun]

(* BaseEnvironmentSchema.safeParse(mapping). *)
ValidatePermissive ==
    /\ fnOut.op = "schema" /\ ~fnOut.base.ran
    /\ fnOut' = [fnOut EXCEPT !.base = Ran(BaseEnvironmentSchema(fnArg))]
    /\ UNCHANGED <<procEnv, localFile, localMode, sharedFile, umask, pc, environment,
                   pending, result, hist, calls, cliVars, fnArg>>

(* StrictEnvironmentSchema.safeParse(mapping). *)
ValidateStrict ==
    /\ fnOut.op = "schema" /\ ~fnOut.strict.ran
    /\ fnOut' = [fnOut EXCEPT !.strict = Ran(StrictEnvironmentSchema(fnArg))]
    /\ UNCHANGED <<procEnv, localFile, localMode, sharedFile, umask, pc, environment,
                   pending, result, hist, calls, cliVars, fnArg>>

NextSchema == ValidatePermissive \/ ValidateStrict

SpecSchema == InitSchema /\ [][NextSchema]_vars

(***************************************************************************)
(* Environment resolution on its own: loadEnvironment,                     *)
(* loadStrictEnvironment and loadEnv called by a caller, any number of     *)
(* times up to MaxResolves.                                                *)
(***************************************************************************)
MaxResolves == 2

(* dotenv's config() would copy the values of the files into process.env. *)
processEnvAfterDotenvConfig(penv, local, shared) ==
    MergeFile(MergeFile(penv, local), shared)

(* Lines 98-124: collectEnvironment reads process.env (Object.entries, line
   101) and the two files through parse(), and assigns to none of them;
   process.env is afterwards what it was. *)
processEnvAfterCollect(penv, local, shared) == penv

InitResolve ==
    /\ procEnv \in CliProcEnvs
    /\ localFile \in CliLocalFiles
    /\ localMode \in (IF localFile.exists THEN {Mode600, Mode644} ELSE {0})
    /\ sharedFile \in SharedFiles
    /\ umask = Umask022
    /\ InitProcs
    /\ fnArg = [procEnv |-> procEnv, localFile |-> localFile, localMode |-> localMode,
                sharedFile |-> sharedFile]
    /\ fnOut = [op |-> "resolve", n |-> 0, fn |-> "none", last |-> NotRun,
                prevFn |-> "none", prev |-> NotRun]

(* One call of a resolving function: its result is recorded next to the
   result of the call before. *)
Resolved(fn, res) ==
    /\ fnOut.op = "resolve"
    /\ fnOut.n < MaxResolves
    /\ fnOut' = [op |-> "resolve", n |-> fnOut.n + 1, fn |-> fn, last |-> Ran(res),
                 prevFn |-> fnOut.fn, prev |-> fnOut.last]
    /\ procEnv' = processEnvAfterCollect(procEnv, localFile, sharedFile)
    /\ UNCHANGED <<localFile, localMode, sharedFile, umask, pc, environment,
                   pending, result, hist, calls, cliVars, fnArg>>

ResolvePermissive == Resolved("loadEnvironment", loadEnvironment(procEnv, localFile, sharedFile))

ResolveStrict ==
    Resolved("loadStrictEnvironment", loadStrictEnvironment(procEnv, localFile, sharedFile))

ResolveLoadEnv == Resolved("loadEnv", loadEnv(procEnv, localFile, sharedFile))

NextResolve == ResolvePermissive \/ ResolveStrict \/ ResolveLoadEnv

SpecResolve == InitResolve /\ [][NextResolve]_vars

(***************************************************************************)
(* Properties.                                                             *)
(***************************************************************************)
PK == "PRIVATE_KEY"
WA == "WALLET_ADDRESS"

(* Invocation p has been called at least once and is not running. *)
Returned(p) == pc[p] = "idle" /\ hist[p].callNo > 0
ReturnedOk(p) == Returned(p) /\ result[p].kind = "ok"

(* The environment the running or last call of p decided on holds both secrets. *)
BothPresent(p) == Truthy(environment[p], PK) /\ Truthy(environment[p], WA)

(* .env.local is as it was when the call of p started. *)
LocalUntouched(p) ==
    /\ localFile = hist[p].entry
    /\ localMode = hist[p].entryMode
    /\ ~hist[p].wrote

(* C1 (Reuse): a call with force=false whose environment holds both
   PRIVATE_KEY and WALLET_ADDRESS never reaches the write, leaves .env.local
   (content, existence, mode) as it found it, and returns exactly those two
   values with created, rotated and wroteEnv all false. *)
C1_ReuseReturnsAsIs ==
    \A p \in Procs :
        (hist[p].callNo > 0 /\ ~hist[p].force /\ BothPresent(p)) =>
            /\ pc[p] \in {"read", "idle"}
            /\ LocalUntouched(p)
            /\ pc[p] = "idle" =>
                  result[p] = Material("reuse", environment[p][WA], environment[p][PK],
                                       FALSE, FALSE, FALSE)

C1_Witness ==
    /\ ReturnedOk(1) /\ ~hist[1].force /\ BothPresent(1)
    /\ result[1].path = "reuse"
    /\ localFile.exists /\ Truthy(readEnvLocal(localFile), PK)

(* C2 (circuit breaker): after a call with force=false, a usable private key
   that .env.local held when the call started is still there, and the call
   generated no key while such a key was present.  Stated for the calls that
   resolve the environment themselves; the claim covers the calls given a
   pre-loaded environment as well. *)
Usable(m) == Has(m, PK) /\ privateKeyToAccount(m[PK]).ok

C2_CircuitBreaker ==
    \A p \in Procs :
        (Returned(p) /\ ~hist[p].force /\ ~hist[p].pre
            /\ Usable(readEnvLocal(hist[p].entry))) =>
            /\ Has(readEnvLocal(localFile), PK)
            /\ readEnvLocal(localFile)[PK] = readEnvLocal(hist[p].entry)[PK]
            /\ ~result[p].created

(* The environment resolved from the sources as they are now. *)
ResolvedNow == loadEnv(procEnv, localFile, sharedFile)

(* .env.local holds exactly the pair the last call of p returned. *)
LocalHoldsReturned(p) ==
    /\ localFile.exists
    /\ Has(readEnvLocal(localFile), PK) /\ readEnvLocal(localFile)[PK] = result[p].privateKey
    /\ Has(readEnvLocal(localFile), WA) /\ readEnvLocal(localFile)[WA] = result[p].address

(* The last call of p was ensureWallet(force=false) with a private key that
   derives an address and no address in its environment. *)
RepairCase(p) ==
    /\ Returned(p) /\ ~hist[p].force
    /\ Truthy(environment[p], PK) /\ ~Truthy(environment[p], WA)
    /\ privateKeyToAccount(environment[p][PK]).ok

(* C3 (Repair), without its clause on private keys: the call returns the
   derived address and the same private key with created=false,
   rotated=false, wroteEnv=true, .env.local holds both, and a resolve of the
   directory shows the derived address. *)
C3_RepairFills ==
    \A p \in Procs :
        RepairCase(p) =>
            /\ result[p] = Material("repair", privateKeyToAccount(environment[p][PK]).address,
                                    environment[p][PK], FALSE, FALSE, TRUE)
            /\ hist[p].wrote
            /\ LocalHoldsReturned(p)
            /\ (~hist[p].pre =>
                  /\ ResolvedNow.ok
                  /\ Has(ResolvedNow.value, WA)
                  /\ ResolvedNow.value[WA] = result[p].address)

(* C3 (Repair) as claimed: the above, and no private key is changed - a
   usable PRIVATE_KEY that .env.local held on entry is the one it holds
   afterwards. *)
C3_Repair ==
    /\ C3_RepairFills
    /\ \A p \in Procs :
          (RepairCase(p) /\ Usable(readEnvLocal(hist[p].entry))) =>
              readEnvLocal(localFile)[PK] = readEnvLocal(hist[p].entry)[PK]

(* C4 (Provision) as claimed: in a directory without .env.local, whatever the
   process variables and .env hold, ensureWallet(cwd, force=false) returns
   created=true, rotated=false, wroteEnv=true and .env.local then holds the
   returned pair. *)
C4_ProvisionAnyDirectory ==
    \A p \in Procs :
        (Returned(p) /\ ~hist[p].force /\ ~hist[p].pre /\ ~hist[p].entry.exists) =>
            /\ result[p].kind = "ok"
            /\ result[p].created /\ ~result[p].rotated /\ result[p].wroteEnv
            /\ LocalHoldsReturned(p)

(* C4 amended: the same when, in addition, the environment the call resolved
   holds no PRIVATE_KEY (neither process variables nor .env supply one). *)
C4_Provision ==
    \A p \in Procs :
        (ReturnedOk(p) /\ ~hist[p].force /\ ~hist[p].entry.exists
            /\ ~Truthy(environment[p], PK)) =>
            /\ result[p].path = "provision"
            /\ result[p].created /\ ~result[p].rotated /\ result[p].wroteEnv
            /\ result[p].privateKey = generatePrivateKey(hist[p].callNo)
            /\ LocalHoldsReturned(p)

C4_Witness ==
    /\ ReturnedOk(1) /\ ~hist[1].force /\ ~hist[1].pre /\ ~hist[1].entry.exists
    /\ ~Truthy(environment[1], PK)
    /\ result[1].created /\ LocalHoldsReturned(1)

(* C5 (idempotence): of two consecutive ensureWallet(cwd, force=false) calls
   of which the first succeeded, the second returns the same address and the
   same private key and reports created=false, rotated=false. *)
C5_Idempotent ==
    \A p \in Procs :
        (Returned(p) /\ ~hist[p].force /\ ~hist[p].pre
            /\ hist[p].prev.kind = "ok" /\ ~hist[p].prevForce /\ ~hist[p].prevPre) =>
            /\ result[p].kind = "ok"
            /\ result[p].privateKey = hist[p].prev.privateKey
            /\ result[p].address = hist[p].prev.address
            /\ ~result[p].created /\ ~result[p].rotated

C3_Witness ==
    /\ RepairCase(1) /\ result[1].path = "repair"
    /\ hist[1].entry.exists /\ ~Has(readEnvLocal(hist[1].entry), WA)
    /\ LocalHoldsReturned(1)

(* The secrets state in which the last call of p was entered. *)
EntryState(p) ==
    IF BothPresent(p) THEN "both"
    ELSE IF Truthy(environment[p], PK) THEN "keyOnly"
    ELSE IF ~Truthy(environment[p], WA) THEN "neither"
    ELSE "addressOnly"

(* C6 (Rotation): a call with force=true whose environment resolved returns a
   pair made from a key just generated, with created, rotated and wroteEnv
   all true; .env.local then holds that pair; the pair differs in both parts
   from what the call before it returned and from what .env.local held. *)
C6_Rotation ==
    \A p \in Procs :
        (Returned(p) /\ hist[p].force) =>
            /\ result[p].kind = "thrown" => (result[p].path = "schema" /\ LocalUntouched(p))
            /\ result[p].kind = "ok" =>
                  /\ result[p].path = "rotate"
                  /\ result[p].created /\ result[p].rotated /\ result[p].wroteEnv
                  /\ result[p].privateKey = generatePrivateKey(hist[p].callNo)
                  /\ result[p].address = privateKeyToAccount(result[p].privateKey).address
                  /\ hist[p].wrote
                  /\ LocalHoldsReturned(p)
                  /\ (hist[p].prev.kind = "ok" =>
                        /\ result[p].privateKey # hist[p].prev.privateKey
                        /\ result[p].address # hist[p].prev.address)
                  /\ \A k \in {PK, WA} :
                        Has(readEnvLocal(hist[p].entry), k) =>
                            readEnvLocal(localFile)[k] # readEnvLocal(hist[p].entry)[k]

(* A rotation that followed a successful call, from each entry state. *)
C6_Witness ==
    /\ ReturnedOk(1) /\ hist[1].force /\ result[1].rotated
    /\ hist[1].prev.kind = "ok" /\ hist[1].prev.path = "reuse"
    /\ EntryState(1) = "both"

C6_WitnessKeyOnly ==
    ReturnedOk(1) /\ hist[1].force /\ result[1].rotated /\ EntryState(1) = "keyOnly"

C6_WitnessNeither ==
    ReturnedOk(1) /\ hist[1].force /\ result[1].rotated /\ EntryState(1) = "neither"

(* C7 (flag consistency): every returned WalletMaterial has a non-empty
   address and private key and carries the flags of the path its entry state
   and intent select - Rotate (true, true, true) under force, else Reuse
   (false, false, false) when both secrets are present, Repair (false, false,
   true) when only the private key is, Provision (true, false, true)
   otherwise; wroteEnv is true exactly when .env.local was written during the
   call. *)
FlagsOf(r) == <<r.created, r.rotated, r.wroteEnv>>

ExpectedPath(p) ==
    IF hist[p].force THEN "rotate"
    ELSE IF EntryState(p) = "both" THEN "reuse"
    ELSE IF EntryState(p) = "keyOnly" THEN "repair"
    ELSE "provision"

ExpectedFlags(path) ==
    CASE path = "reuse" -> <<FALSE, FALSE, FALSE>>
      [] path = "repair" -> <<FALSE, FALSE, TRUE>>
      [] path = "provision" -> <<TRUE, FALSE, TRUE>>
      [] path = "rotate" -> <<TRUE, TRUE, TRUE>>

C7_FlagConsistency ==
    \A p \in Procs :
        ReturnedOk(p) =>
            /\ result[p].address # EmptyStr /\ result[p].privateKey # EmptyStr
            /\ result[p].path = ExpectedPath(p)
            /\ FlagsOf(result[p]) = ExpectedFlags(ExpectedPath(p))
            /\ (result[p].rotated => result[p].created)
            /\ (result[p].created => result[p].wroteEnv)
            /\ (result[p].wroteEnv <=> hist[p].wrote)

C7_Witness ==
    /\ ReturnedOk(1) /\ result[1].path = "rotate" /\ hist[1].wrote
    /\ hist[1].prev.kind = "ok" /\ hist[1].prev.path = "repair"

(***************************************************************************)
(* Resolution of the environment.                                          *)
(***************************************************************************)
Keys == {KeyOrder[i] : i \in 1..Len(KeyOrder)}

(* What each source holds, as the resolver reads it. *)
InLocal == readEnvLocal(localFile)
InShared == readEnvLocal(sharedFile)

(* The value the schema hands on for key k given the collected value v. *)
Parsed(k, v) == IF k \in CanonicalKeys THEN Trim(v) ELSE v

(* Invocation p has just resolved the environment from the sources. *)
JustLoaded(p) == pc[p] = "read" /\ ~hist[p].pre

(* C8 (precedence): for each key, the collected mapping takes the whole value
   of the highest-precedence source that provides it, process variables
   before .env.local before .env, and the environment loadEnv returns holds
   that value as the schema parses it.  A process variable provides a key
   when its value is non-empty; the third clause covers the keys .env.local
   does not set at all (a key set to the empty string in a file is the
   subject of C9). *)
C8_Precedence ==
    LET merged == collectEnvironment(procEnv, localFile, sharedFile)
        Winner(k) ==
            IF Truthy(procEnv, k) THEN procEnv[k]
            ELSE IF Truthy(InLocal, k) THEN InLocal[k]
            ELSE InShared[k]
        Provided(k) ==
            \/ Truthy(procEnv, k)
            \/ Truthy(InLocal, k)
            \/ (~Has(InLocal, k) /\ Truthy(InShared, k))
    IN /\ \A k \in Keys : Provided(k) => (Has(merged, k) /\ merged[k] = Winner(k))
       /\ \A k \in DOMAIN merged : Has(procEnv, k) \/ Has(InLocal, k) \/ Has(InShared, k)
       /\ \A p \in Procs : JustLoaded(p) =>
             \A k \in Keys : Provided(k) =>
                 (Has(environment[p], k) /\ environment[p][k] = Parsed(k, Winner(k)))

(* A key set to different values in all three sources, resolved. *)
C8_Witness ==
    /\ JustLoaded(1)
    /\ Truthy(procEnv, PK) /\ Truthy(InLocal, PK) /\ Truthy(InShared, PK)
    /\ procEnv[PK] # InLocal[PK] /\ InLocal[PK] # InShared[PK]
    /\ environment[1][PK] = Trim(procEnv[PK])
    /\ Truthy(InLocal, "FOO") /\ Truthy(InShared, "FOO") /\ InLocal["FOO"] # InShared["FOO"]
    /\ environment[1]["FOO"] = InLocal["FOO"]

(* C9 (empty values): in the environment an invocation has just resolved no
   key has the empty string as its value, and every key for which some source
   holds a non-empty value has the value of the first such source. *)
C9_EmptyNotProvided ==
    \A p \in Procs : JustLoaded(p) =>
        \A k \in Keys :
            /\ Has(environment[p], k) => environment[p][k] # EmptyStr
            /\ (Truthy(procEnv, k) \/ Truthy(InLocal, k) \/ Truthy(InShared, k)) =>
                  /\ Has(environment[p], k)
                  /\ environment[p][k] =
                        Parsed(k, IF Truthy(procEnv, k) THEN procEnv[k]
                                  ELSE IF Truthy(InLocal, k) THEN InLocal[k]
                                  ELSE InShared[k])

(* C10 (permission post-condition): once a call that wrote .env.local has
   returned, the file exists with mode 0600 - no bit for group or others -
   whatever mode it had before, whatever the umask, and however the writes of
   racing invocations were interleaved. *)
C10_ModeAfterWrite ==
    \A p \in Procs :
        (ReturnedOk(p) /\ hist[p].wrote) =>
            /\ result[p].wroteEnv
            /\ localFile.exists
            /\ localMode = Mode600
            /\ GroupOtherBits(localMode) = 0

(* Two racing writers have both returned; the file was group/world readable
   before, and the second writer started while the first was writing. *)
C10_Witness ==
    /\ ReturnedOk(1) /\ hist[1].wrote /\ ReturnedOk(2) /\ hist[2].wrote
    /\ hist[1].entryMode = Mode644
    /\ hist[2].entry = FileOf(<<>>)
    /\ localMode = Mode600

(* The command p runs made a call of ensureWallet, the running or last one. *)
CommandCalled(p) == cli[p].outcome = "call" /\ hist[p].callNo = cli[p].callNo

(* .env.local is as it was when the command of p started. *)
CommandLeftLocal(p) == localFile = cli[p].entry /\ localMode = cli[p].entryMode

(* C11 (rotation needs --force): wallet rotate without --force is refused
   before the environment is resolved and before ensureWallet is called, and
   .env.local stays as it was; a command calls ensureWallet with force=true
   exactly when it is wallet rotate with --force, so init and status call it
   with force=false. *)
C11_RotateNeedsForce ==
    \A p \in Procs :
        /\ (cli[p].cmd = "rotate" /\ ~cli[p].force) =>
              /\ cli[p].outcome = "refused"
              /\ ~cli[p].resolved
              /\ ~CommandCalled(p)
              /\ CommandLeftLocal(p)
        /\ CommandCalled(p) =>
              (hist[p].force <=> (cli[p].cmd = "rotate" /\ cli[p].force))

(* A rotation with --force ran, and a later rotate without it was refused. *)
C11_Witness ==
    /\ cli[1].cmd = "rotate" /\ ~cli[1].force /\ cli[1].outcome = "refused"
    /\ hist[1].callNo > 0 /\ hist[1].force
    /\ result[1].kind = "ok" /\ result[1].rotated

(* C12 (failure atomicity): when a call of ensureWallet has failed, in
   resolving the environment or in deriving the address, .env.local was not
   written by that call: its content, existence and mode are those of entry,
   whatever the value of force. *)
C12_FailureAtomic ==
    \A p \in Procs :
        (Returned(p) /\ result[p].kind = "thrown") => LocalUntouched(p)

(* A repair failed on a key no address derives from, with .env.local there. *)
C12_Witness ==
    /\ Returned(1) /\ result[1].kind = "thrown" /\ result[1].path = "derive"
    /\ localFile.exists

(* A call with force=true failed in resolving the environment. *)
C12_WitnessForce ==
    /\ Returned(1) /\ result[1].kind = "thrown" /\ result[1].path = "schema"
    /\ hist[1].force
    /\ localFile.exists

(* The KEY=value lines of a serialization, in the order they were written. *)
IsKV(line) == line.t = "kv"
EntriesOf(lines) == SelectSeq(lines, IsKV)

KeyIndex(k) == CHOOSE i \in 1..Len(KeyOrder) : KeyOrder[i] = k

(* C13 (serialization drops empty fields): the serialization of a mapping
   holds a KEY=value line exactly for the keys with a non-empty value, in
   lexicographic key order, and no line KEY= with an empty value, for any key,
   WALLET_ADDRESS included. *)
C13_DropsEmpty ==
    fnOut.op = "serialize" =>
        LET kv == EntriesOf(fnOut.lines)
        IN /\ \A i \in 1..Len(kv) :
                 /\ kv[i].raw # EmptyStr
                 /\ Has(fnArg, kv[i].k) /\ kv[i].raw = fnArg[kv[i].k]
           /\ \A k \in DOMAIN fnArg :
                 fnArg[k] # EmptyStr => \E i \in 1..Len(kv) : kv[i].k = k
           /\ \A i, j \in 1..Len(kv) : i < j => KeyIndex(kv[i].k) < KeyIndex(kv[j].k)

(* The same for every key but WALLET_ADDRESS. *)
C13_OtherKeys ==
    fnOut.op = "serialize" =>
        LET kv == EntriesOf(fnOut.lines)
        IN /\ \A i \in 1..Len(kv) :
                 kv[i].k # "WALLET_ADDRESS" => kv[i].raw # EmptyStr
           /\ \A k \in DOMAIN fnArg :
                 fnArg[k] # EmptyStr => \E i \in 1..Len(kv) : kv[i].k = k

(* Field k of mapping m is absent or empty (nothing but blanks, which the
   schema trims away), and: it is present and fails the format of the field. *)
Blank(m, k) == ~Has(m, k) \/ Trim(m[k]) = EmptyStr
Malformed(m, k) == Has(m, k) /\ ~FieldOk(k, Trim(m[k]))

(* The number of issues superRefine added for field k. *)
RequiredIssues(res, k) == Cardinality({i \in 1..Len(res.custom) : res.custom[i] = k})

(* C14 (strict validation enumerates every missing field): strict validation
   fails exactly when one of the four required fields is absent or empty or a
   present field is malformed, and its failure carries exactly one "is
   required" issue for each missing required field, naming it, and none for
   the others; permissive validation reports no missing field and accepts
   whenever the present fields are well formed. *)
C14_StrictEnumeratesMissing ==
    fnOut.op = "schema" =>
        LET missing == {k \in CanonicalKeys : Blank(fnArg, k)}
            malformed == {k \in CanonicalKeys : Malformed(fnArg, k)}
        IN /\ fnOut.strict.ran =>
                 /\ ~fnOut.strict.ok <=> (missing # {} \/ malformed # {})
                 /\ \A k \in CanonicalKeys :
                       RequiredIssues(fnOut.strict, k) = IF k \in missing THEN 1 ELSE 0
                 /\ Len(fnOut.strict.custom) = Cardinality(missing)
           /\ fnOut.base.ran =>
                 /\ fnOut.base.custom = <<>>
                 /\ fnOut.base.ok <=> malformed = {}

(* Strict validation of the empty mapping reported all four fields. *)
C14_Witness ==
    /\ fnOut.op = "schema" /\ fnOut.strict.ran /\ fnOut.base.ran
    /\ fnArg = EmptyMap
    /\ Len(fnOut.strict.custom) = 4
    /\ fnOut.base.ok

(* Two fields missing, one of them present but empty, and one malformed. *)
C14_WitnessSome ==
    /\ fnOut.op = "schema" /\ fnOut.strict.ran
    /\ Has(fnArg, "PRIVATE_KEY") /\ fnArg["PRIVATE_KEY"] = EmptyStr
    /\ ~Has(fnArg, "ETHERSCAN_API_KEY")
    /\ Malformed(fnArg, "SEPOLIA_RPC_URL") /\ Truthy(fnArg, "SEPOLIA_RPC_URL")
    /\ Truthy(fnArg, "WALLET_ADDRESS") /\ ~Malformed(fnArg, "WALLET_ADDRESS")
    /\ Len(fnOut.strict.custom) = 2

(* C18 (strict is at least as restrictive as permissive): a mapping strict
   validation accepts is accepted by permissive validation, so every mapping
   permissive validation rejects (wrong URL scheme, malformed PRIVATE_KEY or
   WALLET_ADDRESS, empty API key) is rejected by strict validation. *)
C18_StrictImpliesPermissive ==
    (fnOut.op = "schema" /\ fnOut.strict.ran /\ fnOut.base.ran) =>
        (fnOut.strict.ok => fnOut.base.ok)

(* All four fields are set, the URL has the wrong scheme: both reject. *)
C18_Witness ==
    /\ fnOut.op = "schema" /\ fnOut.strict.ran /\ fnOut.base.ran
    /\ \A k \in CanonicalKeys : Truthy(fnArg, k)
    /\ fnArg["SEPOLIA_RPC_URL"] = Str("url", 2)
    /\ \A k \in CanonicalKeys \ {"SEPOLIA_RPC_URL"} : ~Malformed(fnArg, k)
    /\ ~fnOut.base.ok /\ ~fnOut.strict.ok

(* A mapping both accept. *)
C18_WitnessAccepted ==
    /\ fnOut.op = "schema" /\ fnOut.strict.ran /\ fnOut.base.ran
    /\ fnOut.strict.ok /\ fnOut.base.ok

(* Every invocation is idle and the last call of one of them has written. *)
AllReturnedAfterWrite ==
    /\ \A p \in Procs : pc[p] = "idle"
    /\ \E p \in Procs : Returned(p) /\ hist[p].wrote /\ result[p].kind = "ok"

(* The file holds a private key and the address derived from it. *)
MatchingPair(file) ==
    LET m == readEnvLocal(file)
    IN /\ Truthy(m, PK) /\ Truthy(m, WA)
       /\ privateKeyToAccount(m[PK]).ok
       /\ privateKeyToAccount(m[PK]).address = m[WA]

(* C15 (last write wins): once all concurrent invocations have returned, and
   one of them has written, .env.local is the serialization of one mapping
   and holds the PRIVATE_KEY and WALLET_ADDRESS of a single invocation, a
   matching pair, and no mix of fields of two invocations. *)
C15_LastWriteWins ==
    AllReturnedAfterWrite =>
        /\ MatchingPair(localFile)
        /\ localFile.lines = serializeEnvMap(readEnvLocal(localFile))

(* C16 (no half-written file): what an invocation resolving the environment
   reads from .env.local is a complete content, the one before a write or the
   one after it, and never the empty file a writer has opened and not yet
   filled. *)
C16_NoHalfWritten ==
    \A p \in Procs :
        (hist[p].callNo > 0 /\ ~hist[p].pre) =>
            (hist[p].entry.exists => hist[p].entry.lines # <<>>)

(* C17 (no world-readable secrets during a write): between the write of the
   content and the change of mode, .env.local does not hold the newly
   generated PRIVATE_KEY while its mode grants access to group or others. *)
C17_NoWorldReadableSecret ==
    \A p \in Procs :
        (/\ pc[p] = "chmod"
         /\ pending[p].material.created
         /\ Truthy(readEnvLocal(localFile), PK)
         /\ readEnvLocal(localFile)[PK] = pending[p].material.privateKey)
        => GroupOtherBits(localMode) = 0

(* C19 (resolution is a pure read): loadEnvironment, loadStrictEnvironment
   and loadEnv, succeeding or failing, leave the process variables,
   .env.local and .env as they were; the same function called twice on
   unchanged sources gives the same result; no value of a file appears among
   the process variables. *)
C19_ResolutionIsPureRead ==
    (fnOut.op = "resolve" /\ fnOut.n > 0) =>
        /\ procEnv = fnArg.procEnv
        /\ localFile = fnArg.localFile /\ localMode = fnArg.localMode
        /\ sharedFile = fnArg.sharedFile
        /\ (fnOut.n >= 2 /\ fnOut.fn = fnOut.prevFn) => fnOut.last = fnOut.prev

(* Resolved twice, with a private key that only a file provides. *)
C19_Witness ==
    /\ fnOut.op = "resolve" /\ fnOut.n = 2 /\ fnOut.fn = fnOut.prevFn
    /\ fnOut.last.ok
    /\ Truthy(fnOut.last.value, PK) /\ ~Has(procEnv, PK)

(* A resolution that failed. *)
C19_WitnessFailed ==
    /\ fnOut.op = "resolve" /\ fnOut.n = 2 /\ fnOut.fn = "loadEnv"
    /\ ~fnOut.last.ok /\ fnOut.last.issues # {}
    /\ localFile.exists

(* C20 (export needs both secrets): wallet export fails with the
   missing-secrets error exactly when the environment it resolved lacks
   PRIVATE_KEY or WALLET_ADDRESS; it then writes no keystore and leaves
   .env.local as it was, and export never calls ensureWallet; the keystore is
   written only when both secrets are there and --keystore was given, and
   holds them. *)
C20_ExportNeedsSecrets ==
    \A p \in Procs :
        (cli[p].cmd = "export" /\ cli[p].outcome # "schema") =>
            LET env == cli[p].environment
                both == Truthy(env, PK) /\ Truthy(env, WA)
            IN /\ cli[p].outcome = "missingSecrets" <=> ~both
               /\ cli[p].outcome = "exported" <=> (both /\ cli[p].keystore)
               /\ cli[p].outcome = "exported" =>
                     keystore = writeDemoKeystore(env[WA], env[PK])
               /\ cli[p].outcome # "exported" => keystore = cli[p].entryKeystore
               /\ cli[p].outcome = "missingSecrets" => CommandLeftLocal(p)
               /\ ~CommandCalled(p)

(* Export with --keystore was refused: the private key is there, the address
   is not, and no keystore exists. *)
C20_Witness ==
    /\ cli[1].cmd = "export" /\ cli[1].keystore /\ cli[1].outcome = "missingSecrets"
    /\ Truthy(cli[1].environment, PK) /\ ~Truthy(cli[1].environment, WA)
    /\ ~keystore.exists

(* Export with --keystore wrote the keystore after wallet init had run. *)
C20_WitnessExported ==
    /\ cli[1].cmd = "export" /\ cli[1].outcome = "exported"
    /\ keystore.exists
    /\ hist[1].callNo > 0 /\ hist[1].wrote

(* C21 (read-your-writes): after a call of ensureWallet that wrote .env.local
   has returned a pair, a resolve of the same directory, the sources
   otherwise as they were during the call, yields that PRIVATE_KEY and that
   WALLET_ADDRESS. *)
C21_ReadYourWrites ==
    \A p \in Procs :
        (ReturnedOk(p) /\ hist[p].wrote /\ ~hist[p].pre) =>
            /\ ResolvedNow.ok
            /\ Truthy(ResolvedNow.value, PK) /\ ResolvedNow.value[PK] = result[p].privateKey
            /\ Truthy(ResolvedNow.value, WA) /\ ResolvedNow.value[WA] = result[p].address

(* The same when the process variables hold neither secret. *)
C21_WithoutProcessSecrets ==
    \A p \in Procs :
        (ReturnedOk(p) /\ hist[p].wrote /\ ~Truthy(procEnv, PK) /\ ~Truthy(procEnv, WA)) =>
            /\ ResolvedNow.ok
            /\ Truthy(ResolvedNow.value, PK) /\ ResolvedNow.value[PK] = result[p].privateKey
            /\ Truthy(ResolvedNow.value, WA) /\ ResolvedNow.value[WA] = result[p].address

(* The values a source holds for key k, among the three sources as they were
   before the first call of p. *)
FirstSources(p) == <<procEnv, readEnvLocal(hist[p].first), InShared>>

SourceValues(p, k) ==
    {FirstSources(p)[i][k] : i \in {j \in 1..3 : Truthy(FirstSources(p)[j], k)}}

(* No source held an address that disagrees with the address of a private
   key held by a source (a key no address derives from counts as
   disagreeing with any address). *)
SourcesAgree(p) ==
    \A pk \in SourceValues(p, PK), wa \in SourceValues(p, WA) :
        /\ privateKeyToAccount(Trim(pk)).ok
        /\ privateKeyToAccount(Trim(pk)).address = Trim(wa)

(* C22 (matching pair): if before the first call no source held an address
   disagreeing with the address derivable from a private key of a source,
   then every WalletMaterial a call returns has address =
   deriveAddress(privateKey), and whenever .env.local holds both fields they
   are such a pair. *)
C22_MatchingPair ==
    \A p \in Procs :
        (Returned(p) /\ SourcesAgree(p)) =>
            /\ result[p].kind = "ok" =>
                  /\ privateKeyToAccount(result[p].privateKey).ok
                  /\ privateKeyToAccount(result[p].privateKey).address = result[p].address
            /\ (Truthy(InLocal, PK) /\ Truthy(InLocal, WA)) => MatchingPair(localFile)

(* The part of C22 about .env.local alone. *)
C22_FilePair ==
    \A p \in Procs :
        (Returned(p) /\ SourcesAgree(p)) =>
            ((Truthy(InLocal, PK) /\ Truthy(InLocal, WA)) => MatchingPair(localFile))

(* The last call of p wrote .env.local and returned. *)
WroteAndReturned(p) == ReturnedOk(p) /\ hist[p].wrote

(* C23 (frame of a write): a write of Repair, Provision or Rotate changes
   only PRIVATE_KEY and WALLET_ADDRESS of .env.local: every other key the file
   held on entry with a non-empty value is there afterwards with the same
   value, as the same parser reads it back, and the file holds no other key
   it did not hold on entry. *)
C23_FrameOfWrite ==
    \A p \in Procs :
        WroteAndReturned(p) =>
            LET before == readEnvLocal(hist[p].entry)
                after == InLocal
            IN /\ \A k \in DOMAIN before \ {PK, WA} :
                     before[k] # EmptyStr => (Has(after, k) /\ after[k] = before[k])
               /\ \A k \in DOMAIN after \ {PK, WA} : Has(before, k)

(* The part of C23 on keys: the keys of the file other than the two secrets
   are the keys it held on entry with a non-empty value. *)
C23_KeysKept ==
    \A p \in Procs :
        WroteAndReturned(p) =>
            LET before == readEnvLocal(hist[p].entry)
            IN DOMAIN InLocal \ {PK, WA} =
                  {k \in DOMAIN before \ {PK, WA} : before[k] # EmptyStr}

(* The last two calls of p were ensureWallet(force=false) on an environment
   resolved afresh, and the earlier of them returned a WalletMaterial. *)
SecondOfTwoUnforced(p) ==
    /\ Returned(p) /\ ~hist[p].force /\ ~hist[p].pre
    /\ hist[p].prev.kind = "ok" /\ ~hist[p].prevForce

(* C24 (convergence): after a successful ensureWallet(force=false), the next
   ensureWallet(force=false) on the same directory, the environment resolved
   afresh, takes the Reuse path: wroteEnv=false, created=false, and it does
   not write .env.local. *)
C24_Convergence ==
    \A p \in Procs :
        SecondOfTwoUnforced(p) =>
            /\ result[p].kind = "ok"
            /\ result[p].path = "reuse"
            /\ ~result[p].wroteEnv /\ ~result[p].created /\ ~result[p].rotated
            /\ LocalUntouched(p)

(* A Provision was followed by a Reuse. *)
C24_Witness ==
    /\ SecondOfTwoUnforced(1)
    /\ hist[1].prev.path = "provision" /\ ~hist[1].prevPre
    /\ result[1].path = "reuse"

(* A Repair was followed by a Reuse. *)
C24_WitnessRepair ==
    /\ SecondOfTwoUnforced(1)
    /\ hist[1].prev.path = "repair"
    /\ result[1].path = "reuse"

(* C25 (status never generates a key): wallet status without a resolved
   PRIVATE_KEY returns without calling ensureWallet and without writing
   .env.local; with both secrets resolved it writes nothing; only with a
   private key and no address does it call ensureWallet, with force=false,
   and the WalletMaterial it gets, on the Repair path, has created=false and
   rotated=false. *)
C25_StatusNeverGenerates ==
    \A p \in Procs :
        cli[p].cmd = "status" =>
            LET env == cli[p].environment
            IN /\ cli[p].outcome \in {"schema", "noKey", "status", "call"}
               /\ cli[p].outcome = "noKey" => ~Truthy(env, PK)
               /\ cli[p].outcome = "status" => (Truthy(env, PK) /\ Truthy(env, WA))
               /\ cli[p].outcome = "call" => (Truthy(env, PK) /\ ~Truthy(env, WA))
               /\ cli[p].outcome # "call" => (~CommandCalled(p) /\ CommandLeftLocal(p))
               /\ CommandCalled(p) =>
                     /\ ~hist[p].force
                     /\ ~pending[p].material.created /\ ~pending[p].material.rotated
                     /\ (Returned(p) /\ result[p].kind = "ok") =>
                           /\ result[p].path = "repair"
                           /\ ~result[p].created /\ ~result[p].rotated

(* Status found a key without an address and repaired .env.local. *)
C25_Witness ==
    /\ cli[1].cmd = "status" /\ CommandCalled(1)
    /\ ReturnedOk(1) /\ result[1].path = "repair" /\ hist[1].wrote
    /\ localFile # cli[1].entry

(* Status found no key and left a directory without .env.local as it was. *)
C25_WitnessNoKey ==
    /\ cli[1].cmd = "status" /\ cli[1].outcome = "noKey"
    /\ ~localFile.exists
====
